---- MODULE Spec2Model ----
(***************************************************************************)
(* Model of src/main.py (search_people_on_escavador and its helpers) and   *)
(* of the collaborators it calls: the Escavador API (src/api.py), the      *)
(* Firestore collection escavador/people/search_records and the Pub/Sub    *)
(* e-mail notifier.  One process; the module-level global _token and the   *)
(* store outlive an invocation, so an invocation can follow another.       *)
(*                                                                         *)
(* A Python dict is a function from a set of field names; None is the      *)
(* empty tuple and a present value is a one-element tuple.  Logging and    *)
(* error reporting are sinks that do not fail.                             *)
(***************************************************************************)
EXTENDS Integers, Sequences, FiniteSets, TLC

\* ---------------------------------------------------------------- bounds
MaxPeople == 2        \* longest PEOPLE list
MaxRuns == 2          \* invocations of the entry point in one process
RecursionLimit == 2   \* depth at which Python raises RecursionError
MaxItems == 2         \* most items of a raw result handed to a helper

\* ---------------------------------------------------------------- values
None == <<>>
Some(v) == <<v>>

Names == {"A", "B"}
Tokens == {"t1", "t2"}

\* Items the search endpoint can return for a person (api/v1/busca).
R1 == [id |-> 1, quantidade_processos |-> 1, resumo |-> 7]
R2 == [id |-> 1, quantidade_processos |-> 2]
ItemLists == {<<>>, <<R1>>, <<R2, R1>>}

\* Entries of the PEOPLE list; the last two lack a key the loop reads.
Entries ==
  { [name |-> "A", monitor_processes |-> TRUE],
    [name |-> "A", monitor_processes |-> FALSE],
    [name |-> "B", monitor_processes |-> FALSE],
    [name |-> "B"],
    [monitor_processes |-> TRUE] }

PeopleLists == UNION { [1..n -> Entries] : n \in 0..MaxPeople }

\* Values of the PEOPLE environment variable: unset, a string that is not
\* JSON, JSON that is not a list (a number), or a JSON list.
PeopleValues ==
  { [kind |-> "absent"], [kind |-> "invalid"], [kind |-> "number"] }
    \cup { [kind |-> "list", list |-> l] : l \in PeopleLists }

VARIABLES
  PEOPLE,                    \* os.getenv("PEOPLE")
  escavador,                 \* what the remote API holds for each name
  store,                     \* search_records: name -> None | Some(record)
  _token,                    \* main._token
  pc,                        \* position in search_people_on_escavador
  idx,                       \* position of the for loop in people_list
  name,                      \* loop local
  monitor_processes,         \* loop local
  depth,                     \* nesting of _get_token calls
  used_token,                \* token handed to api.search_person
  person_new_search_result,  \* loop local
  person_new_search_record,  \* loop local
  person_doc,                \* loop local: the document snapshot
  email_body,                \* loop local
  notify_rc,                 \* value returned by _notify_email
  e,                         \* exception caught by the loop's except clause
  published,                 \* message handed to Pub/Sub for this subject
  returned,                  \* None | Some(0) | Some(1)
  escaped,                   \* None | Some(exception that left the function)
  calls,                     \* calls made for the current subject, in order
  written,                   \* value handed to person_doc_ref.set
  compared,                  \* record that was compared with the snapshot
  store_at_start,            \* the store when the current subject began
  touched,                   \* some fetcher/store/notifier call made in this run
  run,                       \* number of the current invocation
  same_fetch,                \* the API data equals that of the previous run
  cur_raised,                \* collaborators whose call raised into the except clause, this run
  prev_raised,               \* the same for the previous run
  issued,                    \* first access token api.get_token returned
  args,                      \* arguments of a direct call of a helper
  raw,                       \* the raw search result object of that call
  out                        \* values the calls of the helper returned

vars == << PEOPLE, escavador, store, _token, pc, idx, name, monitor_processes,
           depth, used_token, person_new_search_result,
           person_new_search_record, person_doc, email_body, notify_rc,
           e, published, returned, escaped, calls, written, compared, store_at_start,
           touched, run, same_fetch, cur_raised, prev_raised, issued,
           args, raw, out >>

locals == << name, monitor_processes, depth, used_token,
             person_new_search_result, person_new_search_record, person_doc,
             email_body, notify_rc, e, published, calls, written, compared >>

\* Left alone by every step of an invocation.
process == << PEOPLE, escavador, run, same_fetch, prev_raised,
             args, raw, out >>

people_list == PEOPLE.list

\* ------------------------------------------------------- pure functions

\* json2html.convert: one table row per key/value pair of the mapping.
Json2Html(json) == { <<k, json[k]>> : k \in DOMAIN json }

\* Python truth value of an optional dict: None and {} are false.
Truthy(profile) == profile # None /\ DOMAIN profile[1] # {}

_get_person_search_event_email_body(existing_profile, new_profile) ==
  IF Truthy(existing_profile) /\ Truthy(new_profile)
    THEN Some([ heading |-> "differed",
                sections |-> << [label |-> "New profile",
                                 table |-> Json2Html(existing_profile[1])],
                                [label |-> "Existing profile record",
                                 table |-> Json2Html(new_profile[1])] >> ])
    ELSE IF ~Truthy(existing_profile)
      THEN Some([ heading |-> "new",
                  sections |-> << [label |-> "New profile",
                                   table |-> IF new_profile = None
                                               THEN {}
                                               ELSE Json2Html(new_profile[1])] >> ])
      ELSE None

\* The flag argument dropped: monitor_processes keeps its default, False.
_get_searched_person_record_default(raw_search_person_result, flag) ==
  LET person_dict == raw_search_person_result.items[1]
  IN  [f \in DOMAIN person_dict \cup {"monitor_processes"} |->
         IF f = "monitor_processes" THEN FALSE ELSE person_dict[f]]

\* The last item taken instead of the first.
_get_searched_person_record_last(raw_search_person_result, flag) ==
  LET items == raw_search_person_result.items
      person_dict == items[Len(items)]
  IN  [f \in DOMAIN person_dict \cup {"monitor_processes"} |->
         IF f = "monitor_processes" THEN flag ELSE person_dict[f]]

_get_searched_person_record(raw_search_person_result, flag) ==
  LET person_dict == raw_search_person_result.items[1]
  IN  [f \in DOMAIN person_dict \cup {"monitor_processes"} |->
         IF f = "monitor_processes" THEN flag ELSE person_dict[f]]

\* ---------------------------------------------------------------- Init
ResetLocals ==
  /\ name' = None
  /\ monitor_processes' = None
  /\ depth' = 0
  /\ used_token' = None
  /\ person_new_search_result' = None
  /\ person_new_search_record' = None
  /\ person_doc' = None
  /\ email_body' = None
  /\ notify_rc' = None
  /\ e' = None
  /\ published' = None
  /\ calls' = <<>>
  /\ written' = None
  /\ compared' = None

Init ==
  /\ PEOPLE \in PeopleValues
  /\ escavador \in [Names -> ItemLists]
  /\ store = [n \in Names |-> None]
  /\ _token = None
  /\ pc = "entry"
  /\ idx = 1
  /\ name = None
  /\ monitor_processes = None
  /\ depth = 0
  /\ used_token = None
  /\ person_new_search_result = None
  /\ person_new_search_record = None
  /\ person_doc = None
  /\ email_body = None
  /\ notify_rc = None
  /\ e = None
  /\ published = None
  /\ returned = None
  /\ escaped = None
  /\ calls = <<>>
  /\ written = None
  /\ compared = None
  /\ store_at_start = store
  /\ touched = FALSE
  /\ run = 1
  /\ same_fetch = FALSE
  /\ cur_raised = {}
  /\ prev_raised = {}
  /\ issued = None
  /\ args = None
  /\ raw = None
  /\ out = <<>>

\* ------------------------------------------------------------- actions

\* Lines 219-231: read and parse PEOPLE, build the clients.
ParseConfig ==
  /\ pc = "entry"
  /\ CASE PEOPLE.kind = "absent" ->
            \* json.loads(None) raises TypeError, which the except clause
            \* for JSONDecodeError does not catch.
            /\ escaped' = Some("TypeError")
            /\ pc' = "done"
            /\ UNCHANGED << returned, calls >>
       [] PEOPLE.kind = "invalid" ->
            /\ returned' = Some(1)
            /\ calls' = Append(calls, "report")
            /\ pc' = "done"
            /\ UNCHANGED escaped
       [] OTHER ->
            /\ pc' = "loop"
            /\ UNCHANGED << returned, escaped, calls >>
  /\ UNCHANGED << process, issued, store, _token, idx, name, monitor_processes, depth,
                  used_token, person_new_search_result,
                  person_new_search_record, person_doc, email_body, notify_rc,
                  e, published, written, compared, store_at_start, touched,
                  cur_raised >>

\* Lines 233-235 and 282: the for statement and the two reads of person_dict,
\* which are outside the try block.
LoopHead ==
  /\ pc = "loop"
  /\ IF PEOPLE.kind = "number"
       THEN /\ escaped' = Some("TypeError")
            /\ pc' = "done"
            /\ UNCHANGED << returned, name, monitor_processes >>
       ELSE IF idx > Len(people_list)
         THEN /\ returned' = Some(0)
              /\ pc' = "done"
              /\ UNCHANGED << escaped, name, monitor_processes >>
         ELSE LET person_dict == people_list[idx] IN
              IF "name" \notin DOMAIN person_dict
                   \/ "monitor_processes" \notin DOMAIN person_dict
                THEN /\ escaped' = Some("KeyError")
                     /\ pc' = "done"
                     /\ UNCHANGED << returned, name, monitor_processes >>
                ELSE /\ name' = Some(person_dict["name"])
                     /\ monitor_processes' = Some(person_dict["monitor_processes"])
                     /\ pc' = "token"
                     /\ UNCHANGED << returned, escaped >>
  /\ store_at_start' = store
  /\ UNCHANGED << process, issued, store, _token, idx, depth, used_token,
                  person_new_search_result, person_new_search_record,
                  person_doc, email_body, notify_rc, e, published, calls,
                  written, compared, touched, cur_raised >>

\* Responses of api.get_token (after _get_credentials): a failure of either
\* call or a response without the key, or a response carrying access_token.
AuthResponses ==
  { [kind |-> "raise"] }
    \cup { [kind |-> "ok", access_token |-> t] :
             t \in {None} \cup { Some(k) : k \in Tokens } }

\* The token not kept: every activation asks api.get_token and returns the
\* access_token of the response.
_get_token_uncached ==
  /\ pc = "token"
  /\ \E r_dict \in AuthResponses :
       /\ calls' = Append(calls, "auth")
       /\ touched' = TRUE
       /\ IF r_dict.kind = "raise"
            THEN /\ e' = Some("token")
                 /\ pc' = "handler"
                 /\ UNCHANGED used_token
            ELSE /\ used_token' = r_dict.access_token
                 /\ pc' = "search"
                 /\ UNCHANGED e
       /\ issued' = IF issued = None /\ r_dict.kind = "ok"
                      THEN r_dict.access_token
                      ELSE issued
  /\ UNCHANGED << process, store, _token, depth, idx, name, monitor_processes,
                  person_new_search_result, person_new_search_record,
                  person_doc, email_body, notify_rc, published, returned,
                  escaped, written, compared, store_at_start, cur_raised >>

\* Lines 63-80: one activation of _get_token.
_get_token ==
  /\ pc = "token"
  /\ IF _token # None
       THEN /\ used_token' = _token
            /\ pc' = "search"
            /\ UNCHANGED << _token, depth, calls, touched, e, issued >>
       ELSE IF depth >= RecursionLimit
         THEN \* RecursionError, an Exception, reaches the except clause
              /\ e' = Some("token")
              /\ pc' = "handler"
              /\ UNCHANGED << _token, depth, calls, touched, used_token,
                              issued >>
         ELSE \E r_dict \in AuthResponses :
                /\ calls' = Append(calls, "auth")
                /\ touched' = TRUE
                /\ IF r_dict.kind = "raise"
                     THEN /\ e' = Some("token")
                          /\ pc' = "handler"
                          /\ UNCHANGED << _token, depth >>
                     ELSE /\ _token' = r_dict.access_token
                          /\ depth' = depth + 1
                          /\ pc' = "token"
                          /\ UNCHANGED e
                /\ issued' = IF issued = None /\ r_dict.kind = "ok"
                               THEN r_dict.access_token
                               ELSE issued
                /\ UNCHANGED used_token
  /\ UNCHANGED << process, store, idx, name, monitor_processes,
                  person_new_search_result, person_new_search_record,
                  person_doc, email_body, notify_rc, published, returned,
                  escaped, written, compared, store_at_start, cur_raised >>

\* Line 239: api.search_person(token, name); src/api.py lines 22-43.
search_person ==
  /\ pc = "search"
  /\ calls' = Append(calls, "search")
  /\ touched' = TRUE
  /\ \/ /\ person_new_search_result' = Some([items |-> escavador[name[1]]])
        /\ pc' = "extract"
        /\ UNCHANGED e
     \/ /\ e' = Some("search")
        /\ pc' = "handler"
        /\ UNCHANGED person_new_search_result
  /\ UNCHANGED << process, issued, store, _token, idx, name, monitor_processes, depth,
                  used_token, person_new_search_record, person_doc,
                  email_body, notify_rc, published, returned, escaped,
                  written, compared, store_at_start, cur_raised >>

\* The test on the items left out: items[0] of an empty list raises IndexError.
Extract_unguarded ==
  /\ pc = "extract"
  /\ IF Len(person_new_search_result[1].items) > 0
       THEN /\ person_new_search_record' =
                 Some(_get_searched_person_record(person_new_search_result[1],
                                                  monitor_processes[1]))
            /\ person_new_search_result' =
                 Some([items |->
                   [person_new_search_result[1].items EXCEPT ![1] =
                      _get_searched_person_record(person_new_search_result[1],
                                                  monitor_processes[1])]])
            /\ calls' = Append(calls, "augment")
            /\ pc' = "get"
            /\ UNCHANGED e
       ELSE /\ e' = Some("search")
            /\ pc' = "handler"
            /\ UNCHANGED << person_new_search_record,
                            person_new_search_result, calls >>
  /\ UNCHANGED << process, issued, store, _token, idx, name, monitor_processes, depth,
                  used_token, person_doc, email_body, notify_rc, published,
                  returned, escaped, written, compared, store_at_start,
                  touched, cur_raised >>

\* Lines 242-249 and 273-274: the test on the items and the augmentation.
Extract ==
  /\ pc = "extract"
  /\ IF Len(person_new_search_result[1].items) > 0
       THEN /\ person_new_search_record' =
                 Some(_get_searched_person_record(person_new_search_result[1],
                                                  monitor_processes[1]))
            \* person_dict is the first item itself, not a copy of it
            /\ person_new_search_result' =
                 Some([items |->
                   [person_new_search_result[1].items EXCEPT ![1] =
                      _get_searched_person_record(person_new_search_result[1],
                                                  monitor_processes[1])]])
            /\ calls' = Append(calls, "augment")
            /\ pc' = "get"
       ELSE /\ pc' = "continue"
            /\ UNCHANGED << person_new_search_record,
                            person_new_search_result, calls >>
  /\ UNCHANGED << process, issued, store, _token, idx, name, monitor_processes, depth,
                  used_token, person_doc,
                  email_body, notify_rc, e, published, returned, escaped,
                  written, compared, store_at_start, touched, cur_raised >>

\* Lines 250-251: person_doc_ref.get().
StoreGet ==
  /\ pc = "get"
  /\ calls' = Append(calls, "get")
  /\ touched' = TRUE
  /\ \/ /\ person_doc' = Some([exists |-> store[name[1]] # None,
                               to_dict |-> store[name[1]]])
        /\ pc' = "classify"
        /\ UNCHANGED e
     \/ /\ e' = Some("get")
        /\ pc' = "handler"
        /\ UNCHANGED person_doc
  /\ UNCHANGED << process, issued, store, _token, idx, name, monitor_processes, depth,
                  used_token, person_new_search_result,
                  person_new_search_record, email_body, notify_rc, published,
                  returned, escaped, written, compared, store_at_start,
                  cur_raised >>

\* The comparison inverted: == where the code has !=.
Classify_inverted ==
  /\ pc = "classify"
  /\ compared' = person_new_search_record
  /\ IF ~person_doc[1].exists
       THEN pc' = "set"
       ELSE IF person_doc[1].to_dict = person_new_search_record
              THEN pc' = "set"
              ELSE pc' = "continue"
  /\ UNCHANGED << process, issued, store, _token, idx, name, monitor_processes, depth,
                  used_token, person_new_search_result,
                  person_new_search_record, person_doc, email_body, notify_rc,
                  e, published, returned, escaped, calls, written,
                  store_at_start, touched, cur_raised >>

\* The records compared by identity (is not) instead of by value.
Classify_identity ==
  /\ pc = "classify"
  /\ compared' = person_new_search_record
  /\ pc' = "set"
  /\ UNCHANGED << process, issued, store, _token, idx, name, monitor_processes, depth,
                  used_token, person_new_search_result,
                  person_new_search_record, person_doc, email_body, notify_rc,
                  e, published, returned, escaped, calls, written,
                  store_at_start, touched, cur_raised >>

\* Lines 253 and 261-263: the two tests that choose the branch.
Classify ==
  /\ pc = "classify"
  /\ compared' = person_new_search_record
  /\ IF ~person_doc[1].exists
       THEN pc' = "set"
       ELSE LET person_existing_search_record == person_doc[1].to_dict IN
            IF person_existing_search_record # person_new_search_record
              THEN pc' = "set"
              ELSE pc' = "continue"
  /\ UNCHANGED << process, issued, store, _token, idx, name, monitor_processes, depth,
                  used_token, person_new_search_result,
                  person_new_search_record, person_doc, email_body, notify_rc,
                  e, published, returned, escaped, calls, written,
                  store_at_start, touched, cur_raised >>

\* The record augmented a second time, with the default flag, for the write.
StoreSet_reaugment ==
  /\ pc = "set"
  /\ calls' = Append(calls, "set")
  /\ touched' = TRUE
  /\ written' = Some(_get_searched_person_record(person_new_search_result[1],
                                                 FALSE))
  /\ \/ /\ store' = [store EXCEPT ![name[1]] = written']
        /\ pc' = "notify"
        /\ UNCHANGED e
     \/ /\ e' = Some("set")
        /\ pc' = "handler"
        /\ UNCHANGED store
  /\ UNCHANGED << process, issued, _token, idx, name, monitor_processes, depth,
                  used_token, person_new_search_result,
                  person_new_search_record, person_doc, email_body, notify_rc,
                  published, returned, escaped, compared, store_at_start,
                  cur_raised >>

\* set(..., merge=True): fields of the old snapshot survive.
StoreSet_merge ==
  /\ pc = "set"
  /\ calls' = Append(calls, "set")
  /\ touched' = TRUE
  /\ written' = person_new_search_record
  /\ \/ /\ store' =
             [store EXCEPT ![name[1]] =
                IF store[name[1]] = None
                  THEN person_new_search_record
                  ELSE LET old == store[name[1]][1]
                           new == person_new_search_record[1]
                       IN  Some([f \in DOMAIN old \cup DOMAIN new |->
                                   IF f \in DOMAIN new THEN new[f] ELSE old[f]])]
        /\ pc' = "notify"
        /\ UNCHANGED e
     \/ /\ e' = Some("set")
        /\ pc' = "handler"
        /\ UNCHANGED store
  /\ UNCHANGED << process, issued, _token, idx, name, monitor_processes, depth,
                  used_token, person_new_search_result,
                  person_new_search_record, person_doc, email_body, notify_rc,
                  published, returned, escaped, compared, store_at_start,
                  cur_raised >>

\* The document reference built once, from the first entry of the list.
StoreSet_firstkey ==
  /\ pc = "set"
  /\ calls' = Append(calls, "set")
  /\ touched' = TRUE
  /\ written' = person_new_search_record
  /\ \/ /\ store' = [store EXCEPT ![people_list[1]["name"]] =
                                     person_new_search_record]
        /\ pc' = "notify"
        /\ UNCHANGED e
     \/ /\ e' = Some("set")
        /\ pc' = "handler"
        /\ UNCHANGED store
  /\ UNCHANGED << process, issued, _token, idx, name, monitor_processes, depth,
                  used_token, person_new_search_result,
                  person_new_search_record, person_doc, email_body, notify_rc,
                  published, returned, escaped, compared, store_at_start,
                  cur_raised >>

\* Lines 255 and 265: person_doc_ref.set(person_new_search_record).
StoreSet ==
  /\ pc = "set"
  /\ calls' = Append(calls, "set")
  /\ touched' = TRUE
  /\ written' = person_new_search_record
  /\ \/ /\ store' = [store EXCEPT ![name[1]] = person_new_search_record]
        /\ pc' = "notify"
        /\ UNCHANGED e
     \/ /\ e' = Some("set")
        /\ pc' = "handler"
        /\ UNCHANGED store
  /\ UNCHANGED << process, issued, _token, idx, name, monitor_processes, depth,
                  used_token, person_new_search_result,
                  person_new_search_record, person_doc, email_body, notify_rc,
                  published, returned, escaped, compared, store_at_start,
                  cur_raised >>

\* No try/except around the publish: a failure raises to the caller.
_notify_email_raises(subject, body) ==
  /\ touched' = TRUE
  /\ \/ /\ published' = Some([subject |-> subject, message |-> body])
        /\ calls' = Append(calls, "notify")
        /\ notify_rc' = Some(0)
        /\ pc' = "continue"
        /\ UNCHANGED e
     \/ /\ calls' = Append(calls, "notify")
        /\ e' = Some("notify")
        /\ pc' = "handler"
        /\ UNCHANGED << published, notify_rc >>

\* Lines 123-145: publish the message; every failure (an unset TO_EMAILS or
\* EMAIL_NOTIFY_PUBSUB_TOPIC, a publish that raises) is logged, reported and
\* turned into the return value 1.
_notify_email(subject, body) ==
  /\ touched' = TRUE
  /\ pc' = "continue"
  /\ UNCHANGED e
  /\ \/ /\ published' = Some([subject |-> subject, message |-> body])
        /\ calls' = Append(calls, "notify")
        /\ notify_rc' = Some(0)
     \/ /\ calls' = calls \o << "notify", "report" >>
        /\ notify_rc' = Some(1)
        /\ UNCHANGED published

\* Lines 256-258 and 266-271: subject, body and the call of _notify_email.
Notify ==
  /\ pc = "notify"
  /\ LET email_subject ==
           [kind |-> IF person_doc[1].exists THEN "updated" ELSE "new",
            name |-> name[1]]
         body ==
           IF person_doc[1].exists
             THEN _get_person_search_event_email_body(person_doc[1].to_dict,
                                                      person_new_search_record)
             ELSE _get_person_search_event_email_body(None,
                                                      person_new_search_record)
     IN  /\ email_body' = body
         /\ _notify_email(email_subject, body)
  /\ UNCHANGED << process, issued, store, _token, idx, name, monitor_processes, depth,
                  used_token, person_new_search_result,
                  person_new_search_record, person_doc, returned, escaped,
                  written, compared, store_at_start, cur_raised >>

\* The collaborator whose call raised: the fetcher (token, search) or the store.
Collaborator(step) == IF step \in {"token", "search"} THEN "fetch" ELSE "store"

\* The exception reported and raised again instead of continue.
Handler_reraise ==
  /\ pc = "handler"
  /\ calls' = calls \o << "except", "report" >>
  /\ cur_raised' = cur_raised \cup { Collaborator(e[1]) }
  /\ escaped' = Some("Exception")
  /\ pc' = "done"
  /\ UNCHANGED << process, issued, store, _token, idx, name, monitor_processes, depth,
                  used_token, person_new_search_result,
                  person_new_search_record, person_doc, email_body, notify_rc,
                  e, published, returned, written, compared, store_at_start,
                  touched >>

\* The failed subject tried again: back to the start of its try block.
Handler_retry ==
  /\ pc = "handler"
  /\ calls' = calls \o << "except", "report" >>
  /\ cur_raised' = cur_raised \cup { Collaborator(e[1]) }
  /\ e' = None
  /\ depth' = 0
  /\ pc' = "token"
  /\ UNCHANGED << process, issued, store, _token, idx, name, monitor_processes,
                  used_token, person_new_search_result,
                  person_new_search_record, person_doc, email_body, notify_rc,
                  published, returned, escaped, written, compared,
                  store_at_start, touched >>

\* Lines 275-280: the except clause of the loop body.
Handler ==
  /\ pc = "handler"
  /\ calls' = calls \o << "except", "report" >>
  /\ cur_raised' = cur_raised \cup { Collaborator(e[1]) }
  /\ pc' = "continue"
  /\ UNCHANGED << process, issued, store, _token, idx, name, monitor_processes, depth,
                  used_token, person_new_search_result,
                  person_new_search_record, person_doc, email_body, notify_rc,
                  e, published, returned, escaped, written, compared,
                  store_at_start, touched >>

\* The continue statements and the end of the loop body: next person.
Continue ==
  /\ pc = "continue"
  /\ idx' = idx + 1
  /\ pc' = "loop"
  /\ ResetLocals
  /\ UNCHANGED << process, issued, store, _token, returned, escaped, store_at_start,
                  touched, cur_raised >>

\* The function is triggered again in the same process; the data the API
\* holds may have changed in between.
Invoke ==
  /\ pc = "done"
  /\ run < MaxRuns
  /\ run' = run + 1
  /\ \E data \in [Names -> ItemLists] :
       /\ escavador' = data
       /\ same_fetch' = (data = escavador)
  /\ prev_raised' = cur_raised
  /\ cur_raised' = {}
  /\ touched' = FALSE
  /\ pc' = "entry"
  /\ idx' = 1
  /\ returned' = None
  /\ escaped' = None
  /\ ResetLocals
  /\ UNCHANGED << PEOPLE, store, _token, store_at_start, issued, args, raw,
                  out >>

Next ==
  \/ ParseConfig
  \/ LoopHead
  \/ _get_token
  \/ search_person
  \/ Extract
  \/ StoreGet
  \/ Classify
  \/ StoreSet
  \/ Notify
  \/ Handler
  \/ Continue
  \/ Invoke

Spec == Init /\ [][Next]_vars

\* ------------------------------------------- direct calls of the helpers

\* Dicts handed to the helpers: every choice of the keys id and
\* monitor_processes, the dict with no key included.
Records ==
  { [k \in {} |-> 0] }
    \cup { [id |-> i] : i \in 1..2 }
    \cup { [monitor_processes |-> b] : b \in BOOLEAN }
    \cup { [id |-> i, monitor_processes |-> b] : i \in 1..2, b \in BOOLEAN }

\* Arguments of _get_person_search_event_email_body.
BodyArgs ==
  { [fn |-> "body", existing_profile |-> x, new_profile |-> Some(y)] :
      x \in {None} \cup { Some(r) : r \in Records }, y \in Records }

\* Arguments of _get_searched_person_record: a raw result with an item.
AugmentArgs ==
  { [fn |-> "augment", raw_search_person_result |-> [items |-> l],
     monitor_processes |-> b] :
      l \in UNION { [1..n -> Records] : n \in 1..MaxItems }, b \in BOOLEAN }

\* Everything a call of a helper leaves alone.
invocation == << PEOPLE, escavador, store, _token, idx, locals, returned,
                 escaped, store_at_start, touched, run, same_fetch,
                 cur_raised, prev_raised, issued >>

CallInit ==
  /\ args \in { Some(a) : a \in BodyArgs \cup AugmentArgs }
  /\ raw = IF args[1].fn = "augment"
             THEN Some(args[1].raw_search_person_result)
             ELSE None
  /\ out = <<>>
  /\ pc = "call"
  /\ PEOPLE = [kind |-> "absent"]
  /\ escavador = [n \in Names |-> <<>>]
  /\ store = [n \in Names |-> None]
  /\ _token = None
  /\ idx = 1
  /\ name = None
  /\ monitor_processes = None
  /\ depth = 0
  /\ used_token = None
  /\ person_new_search_result = None
  /\ person_new_search_record = None
  /\ person_doc = None
  /\ email_body = None
  /\ notify_rc = None
  /\ e = None
  /\ published = None
  /\ returned = None
  /\ escaped = None
  /\ calls = <<>>
  /\ written = None
  /\ compared = None
  /\ store_at_start = store
  /\ touched = FALSE
  /\ run = 1
  /\ same_fetch = FALSE
  /\ cur_raised = {}
  /\ prev_raised = {}
  /\ issued = None

\* Lines 148-172 called with the arguments.
Call_body ==
  /\ pc = "call"
  /\ args[1].fn = "body"
  /\ out' = Append(out, _get_person_search_event_email_body(
                          args[1].existing_profile, args[1].new_profile))
  /\ pc' = "return"
  /\ UNCHANGED << invocation, args, raw >>

\* Lines 175-185 called with the arguments, and then once more with the
\* same raw result object: person_dict is its first item, updated in place.
Call_augment ==
  /\ pc = "call"
  /\ args[1].fn = "augment"
  /\ LET person_dict ==
           _get_searched_person_record(raw[1], args[1].monitor_processes)
     IN  /\ out' = Append(out, person_dict)
         /\ raw' = Some([raw[1] EXCEPT !.items[1] = person_dict])
  /\ pc' = IF out = <<>> THEN "call" ELSE "return"
  /\ UNCHANGED << invocation, args >>

CallNext ==
  \/ Call_body
  \/ Call_augment

CallSpec == CallInit /\ [][CallNext]_vars

\* ------------------------------------------------------------ notation

Count(s, x) == Cardinality({ i \in DOMAIN s : s[i] = x })

InCalls(x) == \E i \in DOMAIN calls : calls[i] = x

\* The rows of a table that shows exactly the key/value pairs of record.
ShowsRecord(table, record) ==
  /\ \A k \in DOMAIN record : <<k, record[k]>> \in table
  /\ Cardinality(table) = Cardinality(DOMAIN record)

\* The end of a subject's iteration, its locals still in place.
SubjectEnd == pc = "continue"

TypeOK ==
  /\ pc \in {"entry", "loop", "token", "search", "extract", "get", "classify",
             "set", "notify", "handler", "continue", "done",
             "call", "return"}
  /\ idx \in 1..(MaxPeople + 1)
  /\ run \in 1..MaxRuns
  /\ cur_raised \subseteq {"fetch", "store"}

\* The first item the API holds for the current subject.
FirstItem == escavador[name[1]][1]

\* record is item with monitor_processes set to flag, nothing else changed.
IsAugmented(record, item, flag) ==
  /\ DOMAIN record = DOMAIN item \cup {"monitor_processes"}
  /\ record["monitor_processes"] = flag
  /\ \A f \in DOMAIN item \ {"monitor_processes"} : record[f] = item[f]

\* The search of the current subject returned at least one item.
Fetched ==
  /\ name # None
  /\ person_new_search_result # None
  /\ Len(escavador[name[1]]) > 0

\* body is the one-section "new record" view of record.
IsNewView(body, record) ==
  /\ body # None
  /\ body[1].heading = "new"
  /\ Len(body[1].sections) = 1
  /\ ShowsRecord(body[1].sections[1].table, record)

\* body is the two-section view of the records old and new.
IsDifferView(body, old, new) ==
  /\ body # None
  /\ body[1].heading = "differed"
  /\ Len(body[1].sections) = 2
  /\ \E i, j \in 1..2 :
       /\ i # j
       /\ ShowsRecord(body[1].sections[i].table, old)
       /\ ShowsRecord(body[1].sections[j].table, new)

\* What the NEW branch does for the current subject: one set call with the
\* augmented first item, one _notify_email call with the "new record" view.
NewEffects ==
  /\ Count(calls, "set") = 1
  /\ written # None
  /\ IsAugmented(written[1], FirstItem, monitor_processes[1])
  /\ Count(calls, "notify") = 1
  /\ IsNewView(email_body, written[1])

C2_Unchanged ==
  (name # None /\ person_new_search_record # None
     /\ store_at_start[name[1]] = person_new_search_record)
  => /\ ~InCalls("set")
     /\ ~InCalls("notify")
     /\ store = store_at_start

C2_Witness ==
  /\ SubjectEnd
  /\ person_new_search_record # None
  /\ store_at_start[name[1]] = person_new_search_record
  /\ InCalls("get")
  /\ ~InCalls("except")

\* The snapshot held for the current subject when it began differs from the
\* augmented new record.
Differs ==
  /\ Fetched
  /\ person_new_search_record # None
  /\ store_at_start[name[1]] # None
  /\ store_at_start[name[1]] # person_new_search_record

\* What the UPDATED branch does: the snapshot is the new record, field for
\* field, and _notify_email was called once with the two-section view of
\* the old snapshot and the new record.
UpdatedEffects ==
  /\ store[name[1]] = person_new_search_record
  /\ IsAugmented(store[name[1]][1], FirstItem, monitor_processes[1])
  /\ Count(calls, "notify") = 1
  /\ IsDifferView(email_body, store_at_start[name[1]][1],
                  person_new_search_record[1])

WellFormed(person_dict) ==
  /\ "name" \in DOMAIN person_dict
  /\ "monitor_processes" \in DOMAIN person_dict

\* PEOPLE is a JSON list of subjects each carrying a name and a flag.
SubjectList ==
  /\ PEOPLE.kind = "list"
  /\ \A i \in DOMAIN people_list : WellFormed(people_list[i])

\* PEOPLE is JSON text.
Parses == PEOPLE.kind \in {"number", "list"}

\* C4: a run whose PEOPLE is absent or is not a list of subjects ends by
\* returning 1, having made no fetcher, store or notifier call.
C4_BadConfigReturnsOne ==
  (pc = "done" /\ ~SubjectList) => (returned = Some(1) /\ ~touched)

\* C6: a run returns 1 exactly when PEOPLE does not parse, and returns 0
\* for every PEOPLE that parses.
C6_ReturnCode ==
  pc = "done" =>
    /\ (returned = Some(1)) <=> ~Parses
    /\ Parses => returned = Some(0)

\* ---------------------------------------------------------------- C5

\* A step of the current subject raised: into the loop's except clause, or
\* inside _notify_email.
Failed == InCalls("except") \/ notify_rc = Some(1)

\* The names of the subjects that follow the current one.
LaterNames ==
  { people_list[j]["name"] :
      j \in { k \in (idx + 1)..Len(people_list) :
                "name" \in DOMAIN people_list[k] } }

\* No exception of a subject's step leaves the function, and a run that
\* returns has been through the whole list.
BatchGoesOn ==
  /\ escaped # None => name = None
  /\ (pc = "done" /\ returned = Some(0)) => idx = Len(people_list) + 1
  /\ (SubjectEnd /\ Failed) => InCalls("report")

\* C5 as stated: when a step of a subject raised, the failure is reported,
\* the exception stays inside the run, the later subjects are reached, and
\* each later subject finds the snapshot it would have found without the
\* failed subject.
C5_Original ==
  /\ BatchGoesOn
  /\ (SubjectEnd /\ Failed) =>
       \A n \in LaterNames : store[n] = store_at_start[n]

\* C5 amended: the same, except that a subject whose notify step failed has
\* already written its own snapshot, which a later subject of the same name
\* then finds.
C5_Isolated ==
  /\ BatchGoesOn
  /\ (SubjectEnd /\ Failed) =>
       \A n \in Names :
         store[n] # store_at_start[n] =>
           (n = name[1] /\ notify_rc = Some(1) /\ ~InCalls("except"))

\* A subject that follows a failed one is stored and notified as NEW.
C5_Witness ==
  /\ SubjectEnd
  /\ idx = 2
  /\ cur_raised # {}
  /\ ~Failed
  /\ store_at_start[name[1]] = None
  /\ store[name[1]] # None
  /\ published # None

\* ---------------------------------------------------------------- C7

\* C7: the notifier is only called once the snapshot is written; after the
\* call, whether it failed or not, the snapshot is in the store,
\* _notify_email has returned 0 or 1, and the subject has not been through
\* the loop's except clause.
C7_PersistThenNotify ==
  /\ pc = "notify" =>
       /\ calls[Len(calls)] = "set"
       /\ store[name[1]] = person_new_search_record
  /\ InCalls("notify") =>
       /\ \E i, j \in DOMAIN calls :
            i < j /\ calls[i] = "set" /\ calls[j] = "notify"
       /\ pc = "continue"
       /\ ~InCalls("except")
       /\ store[name[1]] = person_new_search_record
       /\ notify_rc \in {Some(0), Some(1)}
       /\ (published = None) <=> (notify_rc = Some(1))

C7_Witness ==
  /\ SubjectEnd
  /\ notify_rc = Some(1)
  /\ published = None
  /\ store[name[1]] = person_new_search_record
  /\ store[name[1]] # store_at_start[name[1]]

\* ---------------------------------------------------------------- C8

\* C8: a subject whose search returned no item goes from the test on the
\* items to the end of its iteration: no store read, no store write, no
\* notifier call, nothing reported, the store as it was.
C8_EmptyResult ==
  (name # None /\ person_new_search_result # None
     /\ Len(person_new_search_result[1].items) = 0)
  => /\ pc \in {"extract", "continue"}
     /\ \A i \in DOMAIN calls : calls[i] \in {"auth", "search"}
     /\ store = store_at_start
     /\ e = None
     /\ escaped = None

C8_Witness ==
  /\ SubjectEnd
  /\ person_new_search_result # None
  /\ Len(person_new_search_result[1].items) = 0
  /\ idx < Len(people_list)
  /\ store[name[1]] # None

\* ---------------------------------------------------------------- C9

\* No name is listed in PEOPLE with two different flags.
OneFlagPerName ==
  \A i, j \in DOMAIN people_list :
    (WellFormed(people_list[i]) /\ WellFormed(people_list[j])
       /\ people_list[i]["name"] = people_list[j]["name"])
    => people_list[i]["monitor_processes"] = people_list[j]["monitor_processes"]

\* This step makes no store write and no notifier call.
NoWriteNoNotify ==
  /\ store' = store
  /\ \A i \in DOMAIN calls' : calls'[i] \notin {"set", "notify"}

C10_SameRecord ==
  /\ InCalls("set") =>
       /\ written = compared
       /\ compared = person_new_search_record
       /\ Count(calls, "search") = 1
       /\ Count(calls, "augment") = 1
       /\ \E i \in DOMAIN calls :
            /\ i + 1 \in DOMAIN calls
            /\ calls[i] = "get"
            /\ calls[i + 1] = "set"
       /\ e = None => store[name[1]] = compared
  /\ InCalls("notify") =>
       /\ email_body # None
       /\ ShowsRecord(
            email_body[1].sections[Len(email_body[1].sections)].table,
            compared[1])

C10_Witness ==
  /\ SubjectEnd
  /\ InCalls("set")
  /\ InCalls("notify")
  /\ monitor_processes = Some(TRUE)
  /\ store_at_start[name[1]] # None
  /\ store[name[1]] = compared

\* ---------------------------------------------------------------- C11

\* This step is a call of api.get_token.
AuthCall == calls' = Append(calls, "auth")

\* This step is a call of api.search_person.
SearchCall == calls' = Append(calls, "search")

\* C11: api.get_token is only called while a subject is being processed;
\* once a call has returned an access token, that token stays in _token, no
\* later step calls api.get_token, and every search is made with it.
C11_LazyMemoized ==
  [][ /\ AuthCall => (name # None /\ pc = "token" /\ issued = None)
      /\ issued # None =>
           /\ ~AuthCall
           /\ issued' = issued
           /\ _token = issued
           /\ _token' = issued
           /\ SearchCall => used_token = issued ]_vars

\* A later subject, or a subject of a later invocation, is searched with the
\* token an earlier subject obtained, without a call of api.get_token.
C11_Witness ==
  /\ pc = "extract"
  /\ idx = 2
  /\ run = 2
  /\ InCalls("search")
  /\ ~InCalls("auth")
  /\ issued # None
  /\ used_token = issued

\* ---------------------------------------------------------------- C12

\* The steps of one invocation.
Run ==
  \/ ParseConfig
  \/ LoopHead
  \/ _get_token
  \/ search_person
  \/ Extract
  \/ StoreGet
  \/ Classify
  \/ StoreSet
  \/ Notify
  \/ Handler
  \/ Continue

\* One invocation, its single thread of control going on as long as it has
\* a next statement: every call it makes returns or raises.
FairSpec == Init /\ [][Run]_vars /\ WF_vars(Run)

\* This step is a store or notifier call.
EffectCall ==
  \E x \in {"get", "set", "notify"} :
    \/ calls' = Append(calls, x)
    \/ calls' = calls \o << x, "report" >>

\* The loop goes through the list in order, one position at a time; a
\* search is the first search of its subject, for the name at the loop's
\* position, and comes before the subject's store and notifier calls, which
\* come before the loop moves on.
SequentialRun ==
  /\ idx' \in {idx, idx + 1}
  /\ (calls # <<>> /\ calls' = <<>>) => idx' = idx + 1
  /\ idx' = idx + 1 => (pc = "continue" /\ calls' = <<>>)
  /\ SearchCall =>
       /\ name = Some(people_list[idx]["name"])
       /\ ~InCalls("search")
       /\ \A x \in {"get", "set", "notify"} : ~InCalls(x)
  /\ EffectCall => InCalls("search")

\* C12 as stated: the run ends, sequentially and in list order, and every
\* subject has had exactly one search call when its iteration ends.
C12_Original ==
  /\ <>(pc = "done")
  /\ [][ /\ SequentialRun
         /\ pc = "continue" => Count(calls, "search") = 1 ]_vars

\* C12 amended: the run ends, sequentially and in list order, and a subject
\* has had exactly one search call when _get_token returned for it, and
\* none when _get_token raised.
C12_OneSearchInOrder ==
  /\ <>(pc = "done")
  /\ [][ /\ SequentialRun
         /\ pc = "continue" =>
              Count(calls, "search") = (IF used_token # None THEN 1 ELSE 0)
     ]_vars

\* The second subject has had its one search, the first one having failed.
C12_Witness ==
  /\ SubjectEnd
  /\ idx = 2
  /\ cur_raised # {}
  /\ ~InCalls("except")
  /\ Count(calls, "search") = 1
  /\ InCalls("set")

\* ---------------------------------------------------------------- C13

\* C13: no step removes a snapshot; a step that changes the snapshot of a
\* key is the set call of the subject with that key, creating it when the
\* read found no document (NEW) and replacing it when the read found one
\* that differs from the new record (UPDATED); a subject reads the store at
\* most once.
C13_StoreFrame ==
  [][ /\ \A n \in Names : store[n] # None => store'[n] # None
      /\ \A n \in Names :
           store'[n] # store[n] =>
             /\ name = Some(n)
             /\ calls' = Append(calls, "set")
             /\ store'[n] = person_new_search_record
             /\ person_doc # None
             /\ IF store[n] = None
                  THEN ~person_doc[1].exists
                  ELSE /\ person_doc[1].exists
                       /\ person_doc[1].to_dict = store[n]
                       /\ store[n] # person_new_search_record
      /\ Count(calls', "get") <= 1 ]_vars

\* A subject has replaced its snapshot while another key holds one.
C13_Witness ==
  /\ SubjectEnd
  /\ InCalls("set")
  /\ store_at_start[name[1]] # None
  /\ store[name[1]] # store_at_start[name[1]]
  /\ \E n \in Names \ {name[1]} : store[n] # None /\ store[n] = store_at_start[n]

\* ---------------------------------------------------------------- C14

\* body is the two-section view with the record old first and new second.
IsExistingThenNew(body, old, new) ==
  /\ body # None
  /\ Len(body[1].sections) = 2
  /\ ShowsRecord(body[1].sections[1].table, old)
  /\ ShowsRecord(body[1].sections[2].table, new)

\* C14: _get_person_search_event_email_body returns a body for every pair:
\* the one-section view of new when existing is None, and for every
\* existing dict, the empty one included, the two-section view showing the
\* pairs of existing first and those of new second.
C14_BodyForEveryPair ==
  (pc = "return" /\ args[1].fn = "body") =>
    LET existing_profile == args[1].existing_profile
        new_profile == args[1].new_profile
    IN  IF existing_profile = None
          THEN IsNewView(out[1], new_profile[1])
          ELSE IsExistingThenNew(out[1], existing_profile[1], new_profile[1])

\* ---------------------------------------------------------------- C15

\* C15: every record _get_searched_person_record returns is the first item
\* of the raw result as it was handed in, with monitor_processes set to the
\* flag and every other field as it was; the second call on the same raw
\* result returns the same record as the first.
C15_Augmentation ==
  (pc \in {"call", "return"} /\ args[1].fn = "augment") =>
    \A i \in DOMAIN out :
      /\ IsAugmented(out[i], args[1].raw_search_person_result.items[1],
                     args[1].monitor_processes)
      /\ out[i] = out[1]

\* Two calls made, on a raw result of two items whose first item came with
\* the other value of monitor_processes.
C15_Witness ==
  /\ pc = "return"
  /\ args[1].fn = "augment"
  /\ Len(out) = 2
  /\ Len(args[1].raw_search_person_result.items) = 2
  /\ LET item == args[1].raw_search_person_result.items[1]
     IN  /\ DOMAIN item = {"id", "monitor_processes"}
         /\ item["monitor_processes"] # args[1].monitor_processes
         /\ raw[1].items[1] = out[2]
         /\ raw[1].items[1] # item

\* ---------------------------------------------------------------- C16

\* C16: the call of _get_token a subject makes ends by returning a token or
\* by raising, having called api.get_token at most once, also when the
\* response carries a null access_token.
C16_OneAuthenticate ==
  /\ Count(calls, "auth") <= 1
  /\ used_token # None => used_token \in { Some(k) : k \in Tokens }

====
